---- MODULE Spec2Model ----
(***************************************************************************)
(* Model of src/src/App.tsx: the maze generator generateMaze(width,height) *)
(* and the App component that stores the generated maze and moves the      *)
(* player on key events.                                                   *)
(*                                                                         *)
(* A maze is a JavaScript array of rows.  It is modelled as a function     *)
(* from the row indices that exist to rows, a row being a function from    *)
(* the column indices that hold a value to 0 (wall) or 1 (path).  An index *)
(* outside the domain reads as undefined, as in JavaScript; writing at a   *)
(* column index beyond the row's length adds that index to the row (the    *)
(* indices in between stay holes), and writing into a row that does not    *)
(* exist throws a TypeError.                                               *)
(***************************************************************************)
EXTENDS Integers, Sequences, FiniteSets, Bags, TLC

\* ------------------------------------------------------------------
\* Program constants (App.tsx lines 9-24)
\* ------------------------------------------------------------------
MAZE_WIDTH == 21
MAZE_HEIGHT == 21
START_X == 1
START_Y == 1
GOAL_X == MAZE_WIDTH - 2
GOAL_Y == MAZE_HEIGHT - 2

\* ------------------------------------------------------------------
\* Bounds of the model: the arguments with which generateMaze, taken by
\* itself, is explored in every run: small grids of every shape (valid
\* and invalid sizes), and narrow grids tall enough to hold row GOAL_Y.
\* ------------------------------------------------------------------
MaxSmall == 6
MaxNarrow == 3
MaxTall == 22

\* Arguments of generateMaze (line 31) small enough for every run of the call
\* to be enumerated: every small pair, every narrow and tall pair, the grid
\* with a 3 x 3 lattice, one grid of MAZE_HEIGHT rows with two columns of
\* lattice cells, and one grid with four columns of lattice cells (the
\* narrowest on which a popped cell can have three Wall neighbours).  The pair
\* the program itself passes, MAZE_WIDTH x MAZE_HEIGHT (line 94), has a
\* 10 x 10 lattice and is the pair of Init below.
Dims ==
    ((-1 .. MaxSmall) \X (-1 .. MaxSmall))
    \cup ((-1 .. MaxNarrow) \X ((MAZE_HEIGHT - 1) .. MaxTall))
    \cup {<<7, 7>>, <<5, MAZE_HEIGHT>>, <<9, 7>>}

VARIABLES
    width,      \* argument of generateMaze
    height,     \* argument of generateMaze
    maze,       \* generateMaze's local maze
    stack,      \* generateMaze's local stack, a sequence of <<x, y>>
    cur,        \* <<x, y>> of the coordinate popped last
    todo,       \* the shuffled directions forEach has still to visit
    pc,         \* where the call stands
    mazeState,  \* the component's maze state (useState<Maze>([]))
    playerX,    \* the component's playerX state
    playerY,    \* the component's playerY state
    carvedCells,\* history: the cells set to 1 by lines 41 and 66
    carvedMids, \* history: the cells set to 1 by line 67
    pushed,     \* history: the bag of coordinates pushed (lines 38 and 68)
    popped,     \* history: the bag of coordinates popped (line 57)
    pushCount,  \* history: the pushes made by the current pop so far
    countsSeen, \* history: the push counts of the pops that have finished
    wallAtPop   \* history: the two-step neighbours that were Wall at the pop

\* History of the call, kept apart from its locals.
genHistory == <<carvedCells, carvedMids, pushed, popped, pushCount, countsSeen, wallAtPop>>

vars ==
    <<width, height, maze, stack, cur, todo, pc, mazeState, playerX, playerY,
      genHistory>>

\* The variables of generateMaze's call, and those of the component.
genVars == <<width, height, maze, stack, cur, todo, genHistory>>
appVars == <<mazeState, playerX, playerY>>

\* ------------------------------------------------------------------
\* Arrays
\* ------------------------------------------------------------------

\* Array.from({ length: n }, () => v): indices 0..n-1; a length below 1 gives
\* the empty array.
ArrayFrom(n, v) == [i \in 0 .. (n - 1) |-> v]

\* The empty array [].
EmptyMaze == ArrayFrom(0, 0)

\* The value undefined; a value v that is there is written <<v>>.
Undefined == << >>

\* maze[y]?.[x]: undefined when maze[y] is undefined (the optional chaining
\* stops there) or when the row holds nothing at x; never an error.
OptionalCell(m, x, y) ==
    IF y \in DOMAIN m
    THEN IF x \in DOMAIN m[y] THEN <<m[y][x]>> ELSE Undefined
    ELSE Undefined

\* maze[y]?.[x] === v
CellIs(m, x, y, v) == OptionalCell(m, x, y) = <<v>>

\* Whether maze[y][x] = ... can be executed: maze[y] must be an array.
CanWrite(m, y) == y \in DOMAIN m

\* maze[y][x] = v, for a row that exists and x >= 0.
WriteCell(m, x, y, v) ==
    [m EXCEPT ![y] = [i \in (DOMAIN m[y]) \cup {x} |-> IF i = x THEN v ELSE m[y][i]]]

\* ------------------------------------------------------------------
\* generateMaze
\* ------------------------------------------------------------------

\* The directions with "left" mistyped as a second "right".
directionsRightTwice ==
    << <<0, -2>>, <<2, 0>>, <<0, 2>>, <<2, 0>> >>

\* A direction table with "up" where "down" should be.
directionsNoDown == << <<2, 0>>, <<-2, 0>>, <<0, -2>>, <<0, -2>> >>

\* A direction table that steps one cell instead of two.
directionsOneStep == << <<1, 0>>, <<-1, 0>>, <<0, 1>>, <<0, -1>> >>

\* const directions = [[2,0],[-2,0],[0,2],[0,-2]]
directions == << <<2, 0>>, <<-2, 0>>, <<0, 2>>, <<0, -2>> >>

\* shuffle(directions): sort with a random comparator returns the four
\* directions in some order; every order is possible.
Shuffles ==
    { s \in [1 .. 4 -> 1 .. 4] : \A i, j \in 1 .. 4 : i # j => s[i] # s[j] }

\* A shuffle whose result forEach leaves after three directions.
ShuffleByThree(s) == [i \in 1 .. 3 |-> directions[s[i]]]

ShuffleBy(s) == [i \in 1 .. 4 |-> directions[s[i]]]

\* Lines 33-41: allocate the all-wall maze, push the start, carve the start.
\* maze[START_Y] does not exist when height <= START_Y: TypeError.
Enter ==
    /\ pc = "entry"
    /\ LET m == ArrayFrom(height, ArrayFrom(width, 0))
       IN  IF CanWrite(m, START_Y)
           THEN /\ maze' = WriteCell(m, START_X, START_Y, 1)
                /\ carvedCells' = {<<START_X, START_Y>>}
                /\ pc' = "loop"
           ELSE /\ maze' = m
                /\ carvedCells' = {}
                /\ pc' = "thrown"
    /\ stack' = << <<START_X, START_Y>> >>
    /\ pushed' = SetToBag({<<START_X, START_Y>>})
    /\ UNCHANGED <<width, height, cur, todo, carvedMids>>
    /\ UNCHANGED <<popped, pushCount, countsSeen, wallAtPop>>
    /\ UNCHANGED appVars

\* The two-step neighbours of c that are Wall in m.
WallNeighbours(m, c) ==
    { n \in { <<c[1] + directions[i][1], c[2] + directions[i][2]>> : i \in 1 .. 4 } :
        CellIs(m, n[1], n[2], 0) }

\* A pop that leaves the popped coordinate on the stack.
PopKeepsTop ==
    /\ pc = "loop"
    /\ stack # << >>
    /\ cur' = stack[Len(stack)]
    /\ stack' = stack
    /\ \E s \in Shuffles : todo' = ShuffleBy(s)
    /\ pc' = "dirs"
    /\ popped' = popped (+) SetToBag({stack[Len(stack)]})
    /\ pushCount' = 0
    /\ wallAtPop' = WallNeighbours(maze, stack[Len(stack)])
    /\ UNCHANGED <<width, height, maze, carvedCells, carvedMids, pushed, countsSeen>>
    /\ UNCHANGED appVars

\* The number of pops made so far.
Pops == BagCardinality(popped)

\* Lines 56-60: while (stack.length): pop, shuffle the directions.
Pop ==
    /\ pc = "loop"
    /\ stack # << >>
    /\ cur' = stack[Len(stack)]
    /\ stack' = SubSeq(stack, 1, Len(stack) - 1)
    /\ \E s \in Shuffles : todo' = ShuffleBy(s)
    /\ pc' = "dirs"
    /\ popped' = popped (+) SetToBag({stack[Len(stack)]})
    /\ pushCount' = 0
    /\ wallAtPop' = WallNeighbours(maze, stack[Len(stack)])
    /\ UNCHANGED <<width, height, maze, carvedCells, carvedMids, pushed, countsSeen>>
    /\ UNCHANGED appVars

\* The midpoint computed without halving the step.
MidpointNotHalved(x, y, d) == <<x + d[1], y + d[2]>>

\* Line 67: the cell between <<x, y>> and its neighbour in direction d.
Midpoint(x, y, d) == <<x + (d[1] \div 2), y + (d[2] \div 2)>>

\* A carve that opens the cell in between but not the neighbour.
CarveMazeMidOnly(m, x, y, d) ==
    LET mid == Midpoint(x, y, d)
    IN  WriteCell(m, mid[1], mid[2], 1)

\* Lines 66-67: carve the neighbour of <<x, y>> in direction d and the cell
\* between them.
CarveMaze(m, x, y, d) ==
    LET mid == Midpoint(x, y, d)
    IN  WriteCell(WriteCell(m, x + d[1], y + d[2], 1), mid[1], mid[2], 1)

\* Lines 60-70: one call of the forEach callback.
Visit ==
    /\ pc = "dirs"
    /\ todo # << >>
    /\ LET d  == Head(todo)
           nx == cur[1] + d[1]
           ny == cur[2] + d[2]
       IN  IF CellIs(maze, nx, ny, 0)
           THEN /\ maze' = CarveMaze(maze, cur[1], cur[2], d)
                /\ stack' = Append(stack, <<nx, ny>>)
                /\ carvedCells' = carvedCells \cup {<<nx, ny>>}
                /\ carvedMids' = carvedMids \cup {Midpoint(cur[1], cur[2], d)}
                /\ pushed' = pushed (+) SetToBag({<<nx, ny>>})
                /\ pushCount' = pushCount + 1
           ELSE UNCHANGED <<maze, stack, carvedCells, carvedMids, pushed, pushCount>>
    /\ todo' = Tail(todo)
    /\ pc' = IF Len(todo) = 1 THEN "loop" ELSE "dirs"
    /\ countsSeen' = IF Len(todo) = 1 THEN countsSeen \cup {pushCount'} ELSE countsSeen
    /\ UNCHANGED <<width, height, cur, popped, wallAtPop>>
    /\ UNCHANGED appVars

\* Lines 73-77: the loop has ended; maze[GOAL_Y][GOAL_X] = 1; return maze.
\* maze[GOAL_Y] does not exist when height <= GOAL_Y: TypeError.
ForceGoal ==
    /\ pc = "loop"
    /\ stack = << >>
    /\ IF CanWrite(maze, GOAL_Y)
       THEN /\ maze' = WriteCell(maze, GOAL_X, GOAL_Y, 1)
            /\ pc' = "returned"
       ELSE /\ maze' = maze
            /\ pc' = "thrown"
    /\ UNCHANGED <<width, height, stack, cur, todo, genHistory>>
    /\ UNCHANGED appVars

\* ------------------------------------------------------------------
\* App
\* ------------------------------------------------------------------

\* Lines 93-95: the mount effect stores what generateMaze returned.
SetMaze ==
    /\ pc = "returned"
    /\ mazeState' = maze
    /\ pc' = "mounted"
    /\ UNCHANGED genVars
    /\ UNCHANGED <<playerX, playerY>>

Keys == {"ArrowUp", "ArrowDown", "ArrowLeft", "ArrowRight", "a"}

\* ArrowRight stepping two cells.
CandidateXTwoCells(key, px) ==
    IF key = "ArrowLeft" THEN px - 1 ELSE IF key = "ArrowRight" THEN px + 2 ELSE px

\* ArrowUp also stepping one cell to the right.
CandidateXDiagonal(key, px) ==
    IF key = "ArrowLeft" THEN px - 1
    ELSE IF key = "ArrowRight" \/ key = "ArrowUp" THEN px + 1 ELSE px

\* ArrowDown not handled.
CandidateYNoDown(key, py) ==
    IF key = "ArrowUp" THEN py - 1 ELSE py

\* Lines 103-110: the candidate coordinate for a key.
CandidateX(key, px) ==
    IF key = "ArrowLeft" THEN px - 1 ELSE IF key = "ArrowRight" THEN px + 1 ELSE px

CandidateY(key, py) ==
    IF key = "ArrowUp" THEN py - 1 ELSE IF key = "ArrowDown" THEN py + 1 ELSE py

\* The guard written as "not a wall": maze[ny]?.[nx] !== 0.
CanMoveToNotWall(m, nx, ny) == OptionalCell(m, nx, ny) # <<0>>

\* The guard testing the bounds only: maze[ny]?.[nx] !== undefined.
CanMoveToInBounds(m, nx, ny) == OptionalCell(m, nx, ny) # Undefined

\* Line 113: maze[ny]?.[nx] === 1
CanMoveTo(m, nx, ny) == CellIs(m, nx, ny, 1)

\* Lines 99-117: handleKeyDown.
HandleKeyDown(key) ==
    /\ pc \in {"returned", "mounted"}
    /\ LET nx == CandidateX(key, playerX)
           ny == CandidateY(key, playerY)
       IN  IF CanMoveTo(mazeState, nx, ny)
           THEN /\ playerX' = nx
                /\ playerY' = ny
           ELSE UNCHANGED <<playerX, playerY>>
    /\ UNCHANGED genVars
    /\ UNCHANGED <<pc, mazeState>>

\* Lines 99-117: handleKeyDown as a function of the maze m and the position
\* <<px, py>> it closes over and of the key: the state writes it makes, in the
\* order it makes them (lines 114-115), none when the guard refuses.
KeyDownWrites(m, px, py, key) ==
    LET nx == CandidateX(key, px)
        ny == CandidateY(key, py)
    IN  IF CanMoveTo(m, nx, ny)
        THEN << <<"setPlayerX", nx>>, <<"setPlayerY", ny>> >>
        ELSE << >>

\* The position after one write, and after a sequence of writes.
ApplyWrite(p, w) ==
    IF w[1] = "setPlayerX" THEN <<w[2], p[2]>> ELSE <<p[1], w[2]>>

RECURSIVE ApplyWrites(_, _)
ApplyWrites(p, ws) ==
    IF ws = << >> THEN p ELSE ApplyWrites(ApplyWrite(p, Head(ws)), Tail(ws))

\* The position a key event leaves the player at.
Moved(m, p, key) == ApplyWrites(p, KeyDownWrites(m, p[1], p[2], key))

\* ------------------------------------------------------------------
\* Specification
\* ------------------------------------------------------------------
\* The state before generateMaze is entered: the component's useState values
\* (lines 86-90) and the locals of the call not yet made.
BeforeCall ==
    /\ maze = EmptyMaze
    /\ stack = << >>
    /\ cur = <<START_X, START_Y>>
    /\ todo = << >>
    /\ pc = "entry"
    /\ mazeState = EmptyMaze
    /\ playerX = START_X
    /\ playerY = START_Y
    /\ carvedCells = {}
    /\ carvedMids = {}
    /\ pushed = EmptyBag
    /\ popped = EmptyBag
    /\ pushCount = 0
    /\ countsSeen = {}
    /\ wallAtPop = {}

\* The program: App is mounted and its mount effect calls
\* generateMaze(MAZE_WIDTH, MAZE_HEIGHT) (line 94), the only call there is.
Init ==
    /\ width = MAZE_WIDTH
    /\ height = MAZE_HEIGHT
    /\ BeforeCall

\* generateMaze is synchronous code: once called it runs on until it returns
\* or throws.
GenStep == Enter \/ Pop \/ Visit \/ ForceGoal

Next ==
    \/ Enter
    \/ Pop
    \/ Visit
    \/ ForceGoal
    \/ SetMaze
    \/ \E key \in Keys : HandleKeyDown(key)

\* The program from its start.  Its runs on the 10 x 10 lattice are too many
\* to enumerate, and no property is checked under it.
Spec == Init /\ [][Next]_vars

\* generateMaze taken by itself, as a function of its arguments: a call with
\* any width and height of Dims.
CallInit ==
    /\ \E wh \in Dims : width = wh[1] /\ height = wh[2]
    /\ BeforeCall

CallNext ==
    \/ Enter
    \/ Pop
    \/ Visit
    \/ ForceGoal

CallSpec == CallInit /\ [][CallNext]_vars

\* The call, once entered, runs on.
FairSpec == CallSpec /\ WF_vars(GenStep)

\* ------------------------------------------------------------------
\* Vocabulary of the properties
\* ------------------------------------------------------------------

\* The arguments the contract allows: odd integers, at least 3.
ValidDims == width >= 3 /\ height >= 3 /\ width % 2 = 1 /\ height % 2 = 1

\* The call has just ended after its while loop: the forced goal write is done
\* and the maze returned, or the write has thrown.
LoopEnded == pc = "returned" \/ (pc = "thrown" /\ carvedCells # {})

\* generateMaze has returned a maze.
Returned == pc \in {"returned", "mounted"}

\* The cells an array of rows holds, and those of them that are Path.
CellsOf(m) == UNION { { <<x, y>> : x \in DOMAIN m[y] } : y \in DOMAIN m }

PathCells(m) == { c \in CellsOf(m) : m[c[2]][c[1]] = 1 }

Neighbours4(c) ==
    { <<c[1] + 1, c[2]>>, <<c[1] - 1, c[2]>>, <<c[1], c[2] + 1>>, <<c[1], c[2] - 1>> }

RECURSIVE Grow(_, _, _)
Grow(P, seen, frontier) ==
    IF frontier = {}
    THEN seen
    ELSE LET new == ((UNION { Neighbours4(c) : c \in frontier }) \cap P) \ seen
         IN  Grow(P, seen \cup new, new)

\* The cells of P connected to c by a chain of 4-adjacent cells of P.
ComponentOf(P, c) == IF c \in P THEN Grow(P, {c}, {c}) ELSE {}

RECURSIVE NumComponents(_)
NumComponents(P) ==
    IF P = {}
    THEN 0
    ELSE LET c == CHOOSE c \in P : TRUE
         IN  1 + NumComponents(P \ ComponentOf(P, c))

\* The number of 4-adjacent pairs of cells of P.
NumEdges(P) ==
    Cardinality({ c \in P : <<c[1] + 1, c[2]>> \in P })
    + Cardinality({ c \in P : <<c[1], c[2] + 1>> \in P })

Start == <<START_X, START_Y>>

\* ------------------------------------------------------------------
\* Claims
\* ------------------------------------------------------------------

\* C1 (as claimed): for odd width, height >= 3 and every direction order, every
\* Path cell of the maze generateMaze returns is connected to (1,1) by a chain
\* of 4-adjacent Path cells.
C1_AllPathConnected ==
    (ValidDims /\ Returned) =>
        PathCells(maze) = ComponentOf(PathCells(maze), Start)

\* C2 (as claimed): for odd width, height >= 3 the call ends without error and
\* returns exactly `height` rows of exactly `width` cells each, the forced goal
\* write having landed on (width-2, height-2).
C2_ReturnsWidthByHeight ==
    (ValidDims /\ pc \in {"returned", "mounted", "thrown"}) =>
        /\ pc # "thrown"
        /\ DOMAIN maze = 0 .. (height - 1)
        /\ \A y \in DOMAIN maze : DOMAIN maze[y] = 0 .. (width - 1)
        /\ GOAL_X = width - 2
        /\ GOAL_Y = height - 2

\* C3: for odd width, height >= 3, when the loop has ended the Path cells hold
\* no cycle under 4-adjacency, the number of carved passage cells is the number
\* of carved lattice cells minus one, and the Path cells reachable from (1,1)
\* are exactly the cells the loop carved.
C3_Acyclic ==
    (ValidDims /\ LoopEnded) =>
        LET P == PathCells(maze)
        IN  /\ NumEdges(P) = Cardinality(P) - NumComponents(P)
            /\ Cardinality(carvedMids) = Cardinality(carvedCells) - 1
            /\ carvedMids \cap carvedCells = {}
            /\ ComponentOf(P, Start) = carvedCells \cup carvedMids

\* C3's case: a grid with a 3 x 3 lattice, on which a cycle could close, fully
\* carved.
C3_Witness ==
    /\ LoopEnded
    /\ width = 7
    /\ height = 7
    /\ Cardinality(carvedCells) = 9

\* C4: for odd width, height >= 3, in every state of the generation and in the
\* returned maze, every cell of row 0, row height-1, column 0 and column
\* width-1 is Wall.
C4_BorderIsWall ==
    (ValidDims /\ pc # "entry") =>
        \A y \in DOMAIN maze : \A x \in DOMAIN maze[y] :
            (x \in {0, width - 1} \/ y \in {0, height - 1}) => maze[y][x] = 0

\* C4's case: the carve has reached the lattice cell next to the far corner.
C4_Witness ==
    /\ ValidDims
    /\ width >= 5
    /\ height >= 5
    /\ CellIs(maze, width - 2, height - 2, 1)
    /\ CellIs(maze, width - 1, height - 1, 0)

\* C5: for odd width, height >= 3, once the loop has ended (so in every maze
\* returned) maze[1][1] and maze[height-2][width-2] are Path.
C5_StartAndGoalArePath ==
    (ValidDims /\ LoopEnded) =>
        /\ CellIs(maze, START_X, START_Y, 1)
        /\ CellIs(maze, width - 2, height - 2, 1)

\* C5's case: a maze has been returned whose goal is not its start.
C5_Witness ==
    /\ ValidDims
    /\ pc = "returned"
    /\ width = 5
    /\ CellIs(maze, width - 2, height - 2, 1)

\* The positions a walk of at most n key events can reach from the positions
\* S, each step as handleKeyDown makes it.
WalkStep(m, S) == S \cup { Moved(m, p, k) : k \in Keys, p \in S }

RECURSIVE WalkWithin(_, _, _)
WalkWithin(m, S, n) ==
    IF n = 0
    THEN S
    ELSE LET T == WalkStep(m, S)
         IN  IF T = S THEN S ELSE WalkWithin(m, T, n - 1)

\* The positions key events can bring the player to from (1,1) on the maze m,
\* in at most as many events as m has Path cells.
Reached(m) == WalkWithin(m, {Start}, Cardinality(PathCells(m)))

\* C6: for odd width, height >= 3 and every maze generated, some sequence of
\* guard-approved single-step moves takes the player from (1,1) to
\* (width-2, height-2), and it is no longer than the number of Path cells.
C6_GoalWalkable ==
    (ValidDims /\ LoopEnded) =>
        <<width - 2, height - 2>>
            \in WalkWithin(maze, {Start}, Cardinality(PathCells(maze)))

\* C6's case: a 5 x 21 maze has been returned, and the walk to its goal takes
\* twenty key events or more.
C6_Witness ==
    /\ pc = "returned"
    /\ width = 5
    /\ height = MAZE_HEIGHT
    /\ <<width - 2, height - 2>>
          \in WalkWithin(maze, {Start}, Cardinality(PathCells(maze)))
    /\ <<width - 2, height - 2>> \notin WalkWithin(maze, {Start}, 19)

\* maze.length and row.length of the arrays.
NumRows(m) == Cardinality(DOMAIN m)

RowLength(r) ==
    IF DOMAIN r = {} THEN 0 ELSE (CHOOSE i \in DOMAIN r : \A j \in DOMAIN r : j <= i) + 1

\* The candidates the guard is asked about: every coordinate from two cells
\* before the grid to two cells past its longest row and last row.
CandidateXs(m) ==
    -2 .. (2 + IF DOMAIN m = {} THEN 0
               ELSE CHOOSE n \in { RowLength(m[y]) : y \in DOMAIN m } :
                        \A y \in DOMAIN m : RowLength(m[y]) <= n)

CandidateYs(m) == -2 .. (NumRows(m) + 2)

GuardIsBoundsAndPath(m) ==
    \A x \in CandidateXs(m), y \in CandidateYs(m) :
        CanMoveTo(m, x, y) <=>
            /\ 0 <= y
            /\ y < NumRows(m)
            /\ 0 <= x
            /\ x < RowLength(m[y])
            /\ OptionalCell(m, x, y) # <<0>>
            /\ OptionalCell(m, x, y) # Undefined

\* C7: for every maze a call of generateMaze ends with, for the maze the
\* component holds before the mount (the empty array) and for every candidate
\* (x, y), negative and too large ones included, the guard approves the move
\* exactly when (x, y) lies within the bounds of the array and the cell there
\* is Path; it has an answer for every candidate.
C7_GuardCorrect ==
    /\ LoopEnded => GuardIsBoundsAndPath(maze)
    /\ pc = "returned" => GuardIsBoundsAndPath(mazeState)

\* C7's case: a generated maze with two lattice columns has been returned (the
\* component still holds the empty array), and the guard refuses the cell left
\* of column 0, a wall and the cell past the far corner while approving a Path
\* cell.
C7_Witness ==
    /\ pc = "returned"
    /\ width = 5
    /\ mazeState = EmptyMaze
    /\ ~ CanMoveTo(mazeState, 1, 1)
    /\ ~ CanMoveTo(maze, -1, 1)
    /\ ~ CanMoveTo(maze, 0, 0)
    /\ ~ CanMoveTo(maze, width, height)
    /\ CanMoveTo(maze, 3, 3)

\* The shift each key asks for.
KeyShift(key) ==
    CASE key = "ArrowUp" -> <<0, -1>>
      [] key = "ArrowDown" -> <<0, 1>>
      [] key = "ArrowLeft" -> <<-1, 0>>
      [] key = "ArrowRight" -> <<1, 0>>
      [] OTHER -> <<0, 0>>

\* C8: on the empty maze and on every maze generateMaze returns, from every
\* position key events can reach, a key event moves the player by exactly the
\* key's one-cell shift when the cell there is Path in the maze, and leaves the
\* player where it is otherwise; a non-arrow key never moves it; no event
\* changes the position by more than one cell or along both axes.
C8_MovementProtocol ==
    (pc = "returned") =>
        \A m \in {mazeState, maze} : \A p \in Reached(m) : \A key \in Keys :
            LET q  == Moved(m, p, key)
                tx == p[1] + KeyShift(key)[1]
                ty == p[2] + KeyShift(key)[2]
            IN  /\ IF ty \in DOMAIN m /\ tx \in DOMAIN m[ty] /\ m[ty][tx] = 1
                   THEN q = <<tx, ty>>
                   ELSE q = p
                /\ \/ (q[1] = p[1] /\ q[2] - p[2] \in {-1, 0, 1})
                   \/ (q[2] = p[2] /\ q[1] - p[1] \in {-1, 0, 1})
                /\ (key = "a") => q = p

\* C8's case: on a returned 5 x 21 maze the player can stand on (3,3), where
\* some arrow key moves it and some arrow key is refused.
C8_Witness ==
    /\ pc = "returned"
    /\ width = 5
    /\ <<3, 3>> \in Reached(maze)
    /\ \E key \in Keys : Moved(maze, <<3, 3>>, key) # <<3, 3>>
    /\ \E key \in Keys \ {"a"} : Moved(maze, <<3, 3>>, key) = <<3, 3>>

\* C10 (as claimed): when width or height is non-positive, even or below 3,
\* generateMaze fails and returns no grid.
C10_InvalidDimsRejected ==
    (~ ValidDims) => ~ Returned

\* The call is over: generateMaze has returned or thrown.
CallOver == pc \in {"returned", "mounted", "thrown"}

\* The worklist has emptied: the while loop is left, the forced goal write
\* still to come.
WorklistEmptied == pc = "loop" /\ stack = << >>

\* C11: for odd width, height >= 3 and every direction order, the number of
\* pops never exceeds width * height, and the call, running on, reaches the
\* empty worklist and ends.
C11_Terminates ==
    /\ [](ValidDims => Pops <= width * height)
    /\ ((ValidDims /\ pc = "entry") ~> (CallOver /\ stack = << >>))

\* C11's case: on a grid with a 3 x 3 lattice the worklist has emptied after
\* one pop for each lattice cell.
C11_Witness ==
    /\ WorklistEmptied
    /\ width = 7
    /\ height = 7
    /\ Pops = 9

\* C12 (as claimed): the carve has failed to reach the goal: when the worklist
\* has emptied, (width-2, height-2) is still Wall and the forced write is what
\* makes it Path.  (Claimed of some run; no run shows it, see the theorem.)
C12_GoalLeftWall ==
    (ValidDims /\ WorklistEmptied) => CellIs(maze, width - 2, height - 2, 0)

\* C12 (amended): for odd width, height >= 3 and every direction order the
\* carve reaches the goal: when the worklist has emptied, (width-2, height-2)
\* is already Path, and writing 1 there changes no cell.
C12_GoalCarvedByLoop ==
    (ValidDims /\ WorklistEmptied) =>
        /\ CellIs(maze, width - 2, height - 2, 1)
        /\ <<width - 2, height - 2>> \in carvedCells
        /\ WriteCell(maze, width - 2, height - 2, 1) = maze

\* C12's case: the worklist has emptied on a grid whose goal is far from the
\* start, the forced write still to come.
C12_Witness ==
    /\ WorklistEmptied
    /\ width = 5
    /\ height = MAZE_HEIGHT
    /\ CellIs(maze, width - 2, height - 2, 1)

\* C13: every coordinate is pushed at most once and popped at most once, and a
\* coordinate that has been popped (the one being processed included) is not
\* on the worklist.
C13_PushedAndPoppedOnce ==
    /\ \A c \in BagToSet(pushed) : CopiesIn(c, pushed) = 1
    /\ \A c \in BagToSet(popped) : CopiesIn(c, popped) = 1
    /\ \A i \in 1 .. Len(stack) : ~ BagIn(stack[i], popped)
    /\ \A i \in 1 .. Len(stack) : BagIn(stack[i], pushed)
    /\ \A c \in BagToSet(popped) : BagIn(c, pushed)

\* C13's case: on a grid with a 3 x 3 lattice nine coordinates have been
\* pushed and all of them popped.
C13_Witness ==
    /\ WorklistEmptied
    /\ width = 7
    /\ height = 7
    /\ BagCardinality(pushed) = 9
    /\ BagCardinality(popped) = 9

\* C14 (as claimed): each of the push counts 0, 1, 2, 3 and 4 is produced by
\* some pop: a run on the widest grid has seen a pop push four coordinates.
\* (Claimed of some run; no run shows it, see the theorem.)
C14_SomePopPushesFour ==
    (WorklistEmptied /\ width = 9 /\ height = 7) => 4 \in countsSeen

\* C14 (amended): a single pop pushes zero to three coordinates, never four;
\* each of the counts 0, 1, 2 and 3 is produced by some pop.
C14_PopPushesAtMostThree ==
    /\ pushCount \in 0 .. 3
    /\ countsSeen \subseteq 0 .. 3
    /\ Cardinality(wallAtPop) <= 3

\* C14's case: one run in which pops have pushed 0, 1, 2 and 3 coordinates.
C14_Witness ==
    /\ WorklistEmptied
    /\ countsSeen = 0 .. 3

\* The coordinates the current pop (or, between pops, the last one) has pushed:
\* the top pushCount entries of the stack.
PushedThisPop ==
    { stack[i] : i \in (Len(stack) - pushCount + 1) .. Len(stack) }

\* The neighbour direction d leads to from the popped coordinate.
Target(d) == <<cur[1] + d[1], cur[2] + d[2]>>

\* C15 (as claimed): directions evaluated earlier in a pop forestall later
\* ones, so that the neighbours a pop carves are not simply those that were
\* Wall when it popped.  (Claimed of some pop; no pop shows it, see the
\* theorem.)
C15_CarvedSetDependsOnOrder ==
    (pc = "loop" /\ Pops > 0 /\ Cardinality(wallAtPop) >= 2) =>
        PushedThisPop # wallAtPop

\* C15 (amended): within a single pop no direction finds its two-step
\* neighbour carved by a direction evaluated earlier in that pop; whatever the
\* order, the pop carves exactly the neighbours that were Wall when it popped.
\* Only the order in which they are pushed depends on the direction order.
C15_CarvedSetIndependentOfOrder ==
    /\ pc = "dirs" =>
          /\ \A i \in 1 .. Len(todo) : Target(todo[i]) \notin PushedThisPop
          /\ PushedThisPop \subseteq wallAtPop
          /\ wallAtPop \ PushedThisPop
                = { n \in { Target(todo[i]) : i \in 1 .. Len(todo) } :
                      CellIs(maze, n[1], n[2], 0) }
    /\ (pc = "loop" /\ Pops > 0) =>
          /\ PushedThisPop = wallAtPop
          /\ Cardinality(wallAtPop) = pushCount

\* C15's case: a pop with three Wall neighbours has finished, having pushed
\* the three of them.
C15_Witness ==
    /\ pc = "loop"
    /\ Cardinality(wallAtPop) = 3
    /\ pushCount = 3

\* C16: for odd width, height >= 3, on the maze generateMaze returns every
\* position key events can bring the player to is a Path cell with
\* 1 <= x <= width-2 and 1 <= y <= height-2, no further key event leads out of
\* these positions, and every candidate the handler tests from them lies
\* inside the grid.
C16_PlayerStaysOnMaze ==
    (ValidDims /\ pc = "returned") =>
        /\ WalkStep(maze, Reached(maze)) = Reached(maze)
        /\ \A p \in Reached(maze) :
              /\ p[1] \in 1 .. (width - 2)
              /\ p[2] \in 1 .. (height - 2)
              /\ CellIs(maze, p[1], p[2], 1)
              /\ \A key \in Keys :
                    /\ CandidateX(key, p[1]) \in 0 .. (width - 1)
                    /\ CandidateY(key, p[2]) \in 0 .. (height - 1)

\* C16's case: on a returned 5 x 21 maze key events can take the player to the
\* far column.
C16_Witness ==
    /\ pc = "returned"
    /\ width = 5
    /\ <<width - 2, 1>> \in Reached(maze)

\* C17: for odd width, height >= 3, when the worklist has emptied every cell
\* with both coordinates odd is Path, every cell with both coordinates even is
\* Wall, and the maze holds exactly 2*((width-1)/2)*((height-1)/2) - 1 Path
\* cells.
C17_FullLatticeCoverage ==
    (ValidDims /\ WorklistEmptied) =>
        /\ DOMAIN maze = 0 .. (height - 1)
        /\ \A y \in DOMAIN maze :
              /\ DOMAIN maze[y] = 0 .. (width - 1)
              /\ \A x \in DOMAIN maze[y] :
                    /\ (x % 2 = 1 /\ y % 2 = 1) => maze[y][x] = 1
                    /\ (x % 2 = 0 /\ y % 2 = 0) => maze[y][x] = 0
        /\ Cardinality(PathCells(maze))
              = 2 * ((width - 1) \div 2) * ((height - 1) \div 2) - 1

\* C17's case: the worklist has emptied on the grid with a 4 x 3 lattice.
C17_Witness ==
    /\ WorklistEmptied
    /\ width = 9
    /\ height = 7
    /\ Cardinality(carvedCells) = 12

\* C18: when generateMaze has returned and the component's maze is still the
\* initial empty array, the player is at (1,1), every key makes no write and
\* leaves the player there, and so does every sequence of keys.
C18_KeysBeforeMaze ==
    (pc = "returned" /\ mazeState = EmptyMaze) =>
        /\ playerX = START_X
        /\ playerY = START_Y
        /\ \A key \in Keys :
              /\ KeyDownWrites(mazeState, playerX, playerY, key) = << >>
              /\ Moved(mazeState, <<playerX, playerY>>, key) = Start
        /\ WalkStep(mazeState, {Start}) = {Start}

\* C18's case: generateMaze has returned a maze and the component still holds
\* the empty array.
C18_Witness ==
    /\ pc = "returned"
    /\ ValidDims
    /\ mazeState = EmptyMaze
    /\ maze # EmptyMaze

\* The positions seen before, between and after the writes ws made from p.
Observed(p, ws) == { ApplyWrites(p, SubSeq(ws, 1, i)) : i \in 0 .. Len(ws) }

\* C19: on every maze generateMaze returns, from every position key events
\* can reach and for every key, the position seen before, between and after
\* the handler's writes is the old position or the candidate and is a Path
\* cell, and after the writes of an approved move it is the candidate.
C19_NoTornPosition ==
    (pc = "returned") =>
        \A p \in Reached(maze) : \A key \in Keys :
            LET ws   == KeyDownWrites(maze, p[1], p[2], key)
                cand == <<CandidateX(key, p[1]), CandidateY(key, p[2])>>
            IN  /\ \A o \in Observed(p, ws) :
                      /\ o \in {p, cand}
                      /\ CanMoveTo(maze, o[1], o[2])
                /\ (ws # << >>) => ApplyWrites(p, ws) = cand

\* C19's case: an approved vertical move on a returned 5 x 21 maze; between
\* its two writes the position seen is still the old one.
C19_Witness ==
    /\ pc = "returned"
    /\ width = 5
    /\ \E p \in Reached(maze) :
          LET ws == KeyDownWrites(maze, p[1], p[2], "ArrowDown")
          IN  /\ Len(ws) = 2
              /\ ApplyWrites(p, SubSeq(ws, 1, 1)) = p
              /\ ApplyWrites(p, ws) # p

\* C20: in every state of the carving loop every coordinate on the worklist
\* has both coordinates odd and is Path in the maze (for odd width,
\* height >= 3: with 1 <= x <= width-2 and 1 <= y <= height-2), no coordinate
\* is on the worklist twice, and no step turns a Path cell back into Wall.
C20_WorklistAndGridInvariant ==
    /\ [](pc \in {"loop", "dirs"} =>
            /\ \A i \in 1 .. Len(stack) :
                  /\ stack[i][1] % 2 = 1
                  /\ stack[i][2] % 2 = 1
                  /\ CellIs(maze, stack[i][1], stack[i][2], 1)
                  /\ ValidDims =>
                        /\ stack[i][1] \in 1 .. (width - 2)
                        /\ stack[i][2] \in 1 .. (height - 2)
            /\ \A i, j \in 1 .. Len(stack) : i # j => stack[i] # stack[j])
    /\ [][ \/ maze' = maze
           \/ \A y \in DOMAIN maze : \A x \in DOMAIN maze[y] :
                 maze[y][x] = 1 => CellIs(maze', x, y, 1) ]_vars

\* C20's case: in the middle of a pop, three coordinates wait on the worklist.
C20_Witness ==
    /\ pc = "dirs"
    /\ width = 7
    /\ height = 7
    /\ Len(stack) = 3

====
